---- MODULE Spec2Model ----
(***************************************************************************)
(* The three demo services of otel-with-aws-presentation-go:               *)
(*   service-a  HTTP /checkout, calls service-b          (service-a/main.go)*)
(*   service-b  HTTP /payment, sends an SQS message      (unnamed/part_003) *)
(*   service-c  SQS poll loop with a two-goroutine fan-out (service-c/main.go)*)
(* together with the tracing pipeline every service builds in              *)
(* initialiseOpenTelemetry: the X-Ray propagator, the X-Ray id generator   *)
(* and the ParentBased(AlwaysSample) sampler.                              *)
(*                                                                         *)
(* Strings are sequences of one-character strings, identifiers are         *)
(* sequences of bytes, so that hex formatting and header parsing are       *)
(* computed, not assumed.                                                  *)
(***************************************************************************)
EXTENDS Integers, Sequences, FiniteSets, TLC

VARIABLES
    proc,      \* proc[s]: main of service s: where it is, what it has served
    reqs,      \* reqs[r]: the r-th /checkout request and its handlers in a and b
    spans,     \* every span started, open or ended
    queue,     \* the SQS queue: messages sent, with their AWSTraceHeader attribute
    cons,      \* service-c's poll loop, processMessage and its two goroutines
    faults,    \* calls the environment has failed so far
    pIn,       \* propagator on its own: the span context injected
    pCarrier,  \* propagator on its own: the X-Amzn-Trace-Id value of the carrier
    pOut,      \* propagator on its own: the span context extracted
    pPc        \* propagator on its own: the step reached

sysVars  == <<proc, reqs, spans, queue, cons, faults>>
propVars == <<pIn, pCarrier, pOut, pPc>>
vars     == <<proc, reqs, spans, queue, cons, faults, pIn, pCarrier, pOut, pPc>>

(***************************************************************************)
(* Bounds of the model.                                                    *)
(***************************************************************************)
MaxRequests == 1   \* /checkout requests the client issues
MaxForeign  == 1   \* queue messages put on the queue by other producers
MaxFaults   == 1   \* outbound calls the environment fails in one run
MaxPolled   == 2   \* queue messages offered to the poll loop on its own
MaxEmpty    == 1   \* receives of the poll loop that return no message
NumCtx      == 4   \* draws of the random source tried against the propagator

(***************************************************************************)
(* Strings and hexadecimal encoding.                                       *)
(***************************************************************************)
HexDigits == <<"0","1","2","3","4","5","6","7","8","9","a","b","c","d","e","f">>

\* hex.EncodeToString of one byte
HexByte(b) == <<HexDigits[(b \div 16) + 1], HexDigits[(b % 16) + 1]>>

RECURSIVE HexEncode(_)
\* TraceID.String() / SpanID.String(): lowercase hex of the bytes
HexEncode(bs) ==
    IF bs = <<>> THEN <<>> ELSE HexByte(Head(bs)) \o HexEncode(Tail(bs))

IsHexChar(c) == \E i \in 1..16 : HexDigits[i] = c
HexVal(c)    == (CHOOSE i \in 1..16 : HexDigits[i] = c) - 1

RECURSIVE HexDecode(_)
\* decodeHex of an even-length string of lowercase hex digits
HexDecode(s) ==
    IF Len(s) < 2 THEN <<>>
    ELSE <<HexVal(s[1]) * 16 + HexVal(s[2])>> \o HexDecode(SubSeq(s, 3, Len(s)))

AllHex(s)  == \A i \in 1..Len(s) : IsHexChar(s[i])
Zeros(n)   == [i \in 1..n |-> 0]

\* s[from:to] of Go, with 0-based from (inclusive) and to (exclusive)
Slice(s, from, to) == SubSeq(s, from + 1, to)

HasPrefix(s, p) == Len(s) >= Len(p) /\ SubSeq(s, 1, Len(p)) = p

\* strings.Index(s[pos:], c) + pos for a one-character c; -1 when absent
IndexOf(s, c, pos) ==
    IF \E i \in (pos + 1)..Len(s) : s[i] = c
    THEN (CHOOSE i \in (pos + 1)..Len(s) :
              s[i] = c /\ \A j \in (pos + 1)..(i - 1) : s[j] # c) - 1
    ELSE -1

\* A string is the sequence of its bytes, as in Go, where len, indexing and
\* slicing count bytes: a byte is written as a one-character string when it
\* is printable ASCII or has an escape, and as "0x" and its hexadecimal
\* value otherwise; a rune above ASCII is the bytes of its UTF-8 encoding.
\*
\* The white space of unicode.IsSpace, which strings.TrimSpace removes, in
\* UTF-8: \t, \n, \v, \f, \r, space, NEL (U+0085) and NBSP (U+00A0) in
\* Latin-1, and above it the runes with the White_Space property: U+1680,
\* U+2000..U+200A, U+2028, U+2029, U+202F, U+205F, U+3000
WhiteSpace ==
    {<<" ">>, <<"\t">>, <<"\n">>, <<"\r">>, <<"\f">>, <<"0x0B">>,
     <<"0xC2", "0x85">>, <<"0xC2", "0xA0">>, <<"0xE1", "0x9A", "0x80">>,
     <<"0xE2", "0x80", "0x80">>, <<"0xE2", "0x80", "0x81">>, <<"0xE2", "0x80", "0x82">>,
     <<"0xE2", "0x80", "0x83">>, <<"0xE2", "0x80", "0x84">>, <<"0xE2", "0x80", "0x85">>,
     <<"0xE2", "0x80", "0x86">>, <<"0xE2", "0x80", "0x87">>, <<"0xE2", "0x80", "0x88">>,
     <<"0xE2", "0x80", "0x89">>, <<"0xE2", "0x80", "0x8A">>, <<"0xE2", "0x80", "0xA8">>,
     <<"0xE2", "0x80", "0xA9">>, <<"0xE2", "0x80", "0xAF">>, <<"0xE2", "0x81", "0x9F">>,
     <<"0xE3", "0x80", "0x80">>}

HasSuffix(s, p) == Len(s) >= Len(p) /\ SubSeq(s, Len(s) - Len(p) + 1, Len(s)) = p

RECURSIVE TrimLeft(_)
\* strings.TrimLeftFunc(s, unicode.IsSpace): the runes are decoded from the front
TrimLeft(s) ==
    IF \E w \in WhiteSpace : HasPrefix(s, w)
    THEN TrimLeft(SubSeq(s, Len(CHOOSE w \in WhiteSpace : HasPrefix(s, w)) + 1, Len(s)))
    ELSE s
RECURSIVE TrimRight(_)
\* strings.TrimRightFunc(s, unicode.IsSpace): the runes are decoded from the back
TrimRight(s) ==
    IF \E w \in WhiteSpace : HasSuffix(s, w)
    THEN TrimRight(SubSeq(s, 1, Len(s) - Len(CHOOSE w \in WhiteSpace : HasSuffix(s, w))))
    ELSE s
\* strings.TrimSpace
TrimSpace(s) == TrimRight(TrimLeft(s))

(***************************************************************************)
(* Span contexts (go.opentelemetry.io/otel/trace).                         *)
(***************************************************************************)
TraceIDLen == 16
SpanIDLen  == 8

\* the zero SpanContext: what SpanContextFromContext gives without a span
EmptySC == [traceID |-> Zeros(TraceIDLen), spanID |-> Zeros(SpanIDLen),
            sampled |-> FALSE, remote |-> FALSE]

\* SpanContext.IsValid: a non-zero trace id and a non-zero span id
IsValidSC(sc) == sc.traceID # Zeros(TraceIDLen) /\ sc.spanID # Zeros(SpanIDLen)

\* trace.TraceIDFromHex: 32 lowercase hex digits, not all zero
TraceIDFromHex(h) ==
    IF Len(h) # 2 * TraceIDLen \/ ~AllHex(h) THEN [ok |-> FALSE, id |-> Zeros(TraceIDLen)]
    ELSE LET id == HexDecode(h)
         IN  [ok |-> id # Zeros(TraceIDLen), id |-> id]

\* trace.SpanIDFromHex: 16 lowercase hex digits, not all zero
SpanIDFromHex(h) ==
    IF Len(h) # 2 * SpanIDLen \/ ~AllHex(h) THEN [ok |-> FALSE, id |-> Zeros(SpanIDLen)]
    ELSE LET id == HexDecode(h)
         IN  [ok |-> id # Zeros(SpanIDLen), id |-> id]

(***************************************************************************)
(* The X-Ray id generator (xray.NewIDGenerator, WithIDGenerator).          *)
(* The random source is a fixed stream of bytes; its k-th draw differs     *)
(* from every other draw and is never all zero.                            *)
(***************************************************************************)
RandByte(k, i) == (17 + 37 * k + 101 * i) % 256

\* getCurrentTimeHex: the 4 big-endian bytes of the Unix time of the run
Epoch == <<99, 80, 18, 52>>

\* IDGenerator.NewSpanID: 8 random bytes
NewSpanID(k) == [i \in 1..SpanIDLen |-> RandByte(k, i)]

\* IDGenerator.NewIDs: trace id = 4 bytes of time followed by 12 random bytes
NewTraceID(k) == Epoch \o [i \in 1..(TraceIDLen - 4) |-> RandByte(k, i + SpanIDLen)]

(***************************************************************************)
(* The X-Ray propagator (xray.Propagator) registered by every service.     *)
(***************************************************************************)
TraceIDLength           == 35
TraceIDDelimitterIndex1 == 1
TraceIDDelimitterIndex2 == 10
TraceIDFirstPartLength  == 8
SampledFlagLength       == 1

KeyRoot    == <<"R","o","o","t">>
KeyParent  == <<"P","a","r","e","n","t">>
KeySampled == <<"S","a","m","p","l","e","d">>

\* Inject writing the trace id without the version prefix "1-"
InjectNoVersion(sc, carrier) ==
    IF ~IsValidSC(sc) THEN carrier
    ELSE LET otTraceID == HexEncode(sc.traceID)
         IN  KeyRoot \o <<"=">> \o Slice(otTraceID, 0, TraceIDFirstPartLength)
             \o <<"-">> \o Slice(otTraceID, TraceIDFirstPartLength, Len(otTraceID)) \o <<";">>
             \o KeyParent \o <<"=">> \o HexEncode(sc.spanID) \o <<";">>
             \o KeySampled \o <<"=">> \o <<IF sc.sampled THEN "1" ELSE "0">>

\* Propagator.Inject: the X-Amzn-Trace-Id value written into the carrier,
\* Root=1-<8 hex>-<24 hex>;Parent=<16 hex>;Sampled=<0|1>; the carrier is
\* left as it is when the span context is not valid.
Inject(sc, carrier) ==
    IF ~IsValidSC(sc) THEN carrier
    ELSE LET otTraceID == HexEncode(sc.traceID)
             xrayTraceID == <<"1", "-">> \o Slice(otTraceID, 0, TraceIDFirstPartLength)
                            \o <<"-">> \o Slice(otTraceID, TraceIDFirstPartLength, Len(otTraceID))
             samplingFlag == IF sc.sampled THEN "1" ELSE "0"
         IN  KeyRoot \o <<"=">> \o xrayTraceID \o <<";">>
             \o KeyParent \o <<"=">> \o HexEncode(sc.spanID) \o <<";">>
             \o KeySampled \o <<"=">> \o <<samplingFlag>>

\* parseTraceID: 1-<8 hex>-<24 hex> to a trace id
ParseTraceID(x) ==
    IF Len(x) # TraceIDLength THEN [ok |-> FALSE, id |-> Zeros(TraceIDLen)]
    ELSE IF ~HasPrefix(x, <<"1">>) THEN [ok |-> FALSE, id |-> Zeros(TraceIDLen)]
    ELSE IF x[TraceIDDelimitterIndex1 + 1] # "-" \/ x[TraceIDDelimitterIndex2 + 1] # "-"
         THEN [ok |-> FALSE, id |-> Zeros(TraceIDLen)]
    ELSE TraceIDFromHex(Slice(x, TraceIDDelimitterIndex1 + 1, TraceIDDelimitterIndex2)
                        \o Slice(x, TraceIDDelimitterIndex2 + 1, TraceIDLength))

\* parseTraceFlag with its test turned round
ParseTraceFlagInverted(x) == Len(x) = SampledFlagLength /\ x # <<"1">>

\* parseTraceFlag: not sampled only for a flag of one byte other than "1"
ParseTraceFlag(x) == ~(Len(x) = SampledFlagLength /\ x # <<"1">>)

RECURSIVE ExtractLoop(_, _, _)
\* extract: the loop over the ;-separated parts of the header value
ExtractLoop(h, pos, scc) ==
    IF pos >= Len(h) THEN [ok |-> TRUE, sc |-> scc]
    ELSE LET d     == IndexOf(h, ";", pos)
             part  == IF d >= 0 THEN Slice(h, pos, d) ELSE TrimSpace(Slice(h, pos, Len(h)))
             npos  == IF d >= 0 THEN d + 1 ELSE Len(h)
             eq    == IndexOf(part, "=", 0)
             value == Slice(part, eq + 1, Len(part))
             tid   == ParseTraceID(value)
             sid   == SpanIDFromHex(value)
         IN  IF eq < 0 THEN [ok |-> FALSE, sc |-> EmptySC]
             ELSE IF HasPrefix(part, KeyRoot)
                  THEN IF tid.ok THEN ExtractLoop(h, npos, [scc EXCEPT !.traceID = tid.id])
                       ELSE [ok |-> FALSE, sc |-> EmptySC]
             ELSE IF HasPrefix(part, KeyParent)
                  THEN IF sid.ok THEN ExtractLoop(h, npos, [scc EXCEPT !.spanID = sid.id])
                       ELSE [ok |-> FALSE, sc |-> EmptySC]
             ELSE IF HasPrefix(part, KeySampled)
                  THEN ExtractLoop(h, npos, [scc EXCEPT !.sampled = ParseTraceFlag(value)])
             ELSE ExtractLoop(h, npos, scc)

\* Propagator.Extract: the span context of the returned context. ctxSC is
\* the span context the context held before; it is kept when the header is
\* absent, does not parse, or parses to a span context that is not valid.
Extract(ctxSC, header) ==
    IF header = <<>> THEN ctxSC
    ELSE LET r == ExtractLoop(header, 0, EmptySC)
         IN  IF r.ok /\ IsValidSC(r.sc) THEN [r.sc EXCEPT !.remote = TRUE] ELSE ctxSC

(***************************************************************************)
(* Tracer.Start of the SDK with the ParentBased(AlwaysSample) sampler      *)
(* (createSampler) and the X-Ray id generator (createTraceProvider).       *)
(***************************************************************************)
\* ParentBased(AlwaysSample): a root is sampled, a child follows its parent
ShouldSample(psc) == IF IsValidSC(psc) THEN psc.sampled ELSE TRUE

\* the span context of the span started under parent span context psc,
\* with the k-th draw of the random source
StartSC(psc, k) ==
    [traceID |-> IF IsValidSC(psc) THEN psc.traceID ELSE NewTraceID(k),
     spanID  |-> NewSpanID(k),
     sampled |-> ShouldSample(psc),
     remote  |-> FALSE]

(***************************************************************************)
(* Carriers as they arrive from outside: mutilations of a well-formed      *)
(* header value.                                                           *)
(***************************************************************************)
HeaderOf(sc) == Inject(sc, <<>>)

\* the header value cut in the middle of the trace id's hex digits
CutTraceHex(h) == SubSeq(h, 1, 20)
\* the header value cut in the middle of the parent id's hex digits
CutParentHex(h) == SubSeq(h, 1, 57)
\* the Root value with its third segment missing: Root=1-<8 hex>;Parent=...
RootTwoSegments(h) == SubSeq(h, 1, 15) \o SubSeq(h, 41, Len(h))
\* the Root part alone
RootOnly(h) == SubSeq(h, 1, 40)
\* the Parent part missing: Root=...;Sampled=.
NoParent(h) == SubSeq(h, 1, 41) \o SubSeq(h, 66, Len(h))
\* a part without "=": Root=...;Parent=...;Sampled
NoEquals(h) == SubSeq(h, 1, 72)
\* the Sampled part missing: Root=...;Parent=...
NoSampled(h) == SubSeq(h, 1, 64)

\* the header value followed by white space, as a carrier that was read
\* from a line of text has it
TrailingWhiteSpace(h) ==
    h \o <<" ", "\t", "0xE3", "0x80", "0x80", "0xC2", "0xA0", "\r", "\n">>

\* a Sampled part whose value is the one rune NBSP, two bytes long, ahead
\* of the Root and Parent parts: Sampled=<NBSP>;Root=...;Parent=...
SampledNBSPFirst(h) == KeySampled \o <<"=", "0xC2", "0xA0", ";">> \o NoSampled(h)

\* headers whose Root or Parent part is missing or does not parse
BrokenHeaders(h) ==
    {CutTraceHex(h), CutParentHex(h), RootTwoSegments(h), RootOnly(h), NoParent(h), NoEquals(h)}

\* headers that do not have the three parts Root, Parent, Sampled with
\* full-length hex values
MalformedHeaders(h) == BrokenHeaders(h) \cup {NoSampled(h)}

\* the trace header of the specification's scenario,
\* Root=1-5759e988-bd862e3fe1be46a994272793;Parent=53995c3f42cd8ad8;Sampled=1
ScenarioSC ==
    [traceID |-> <<87, 89, 233, 136, 189, 134, 46, 63, 225, 190, 70, 169, 148, 39, 39, 147>>,
     spanID  |-> <<83, 153, 92, 63, 66, 205, 138, 216>>,
     sampled |-> TRUE, remote |-> FALSE]

(***************************************************************************)
(* The propagator on its own: inject a span context into an empty          *)
(* carrier, let the carrier travel (intact or mutilated), extract.         *)
(***************************************************************************)
PropContexts ==
    {[traceID |-> NewTraceID(k), spanID |-> NewSpanID(k),
      sampled |-> s, remote |-> FALSE] : k \in 1..NumCtx, s \in BOOLEAN}
    \cup {ScenarioSC, [ScenarioSC EXCEPT !.sampled = FALSE]}

PropIdle == pIn = EmptySC /\ pCarrier = <<>> /\ pOut = EmptySC /\ pPc = "idle"

PropInit == pIn \in PropContexts /\ pCarrier = <<>> /\ pOut = EmptySC /\ pPc = "start"

PInject ==
    /\ pPc = "start"
    /\ pCarrier' = Inject(pIn, pCarrier)
    /\ pPc' = "injected"
    /\ UNCHANGED <<pIn, pOut>>

PMutilate ==
    /\ pPc = "injected"
    /\ pCarrier' \in MalformedHeaders(pCarrier)
                        \cup {TrailingWhiteSpace(pCarrier), SampledNBSPFirst(pCarrier)}
    /\ pPc' = "mutilated"
    /\ UNCHANGED <<pIn, pOut>>

PExtract ==
    /\ pPc \in {"injected", "mutilated"}
    /\ pOut' = Extract(EmptySC, pCarrier)
    /\ pPc' = IF pPc = "injected" THEN "extracted" ELSE "extractedMutilated"
    /\ UNCHANGED <<pIn, pCarrier>>

(***************************************************************************)
(* Spans.  A span record keeps its span context, its parent's span id, and *)
(* whether it is still open; err is the error status it carries.  k is the *)
(* draw of the random source that made its ids; from is the k of the span  *)
(* whose context was passed to Start, or injected into the carrier the     *)
(* context was extracted from (0 when there is none).                      *)
(***************************************************************************)
\* draw number of the span in slot `slot` of unit of work `unit`: every
\* unit of work has its own 16 draws
K(unit, slot) == 16 * unit + slot

NewSpan(k, svc, req, name, psc, from) ==
    LET sc == StartSC(psc, k)
    IN  [k |-> k, svc |-> svc, req |-> req, name |-> name,
         traceID |-> sc.traceID, spanID |-> sc.spanID, sampled |-> sc.sampled,
         parentID |-> IF IsValidSC(psc) THEN psc.spanID ELSE Zeros(SpanIDLen),
         open |-> TRUE, err |-> FALSE, from |-> from]

\* the span context carried by the context Start returns
SCOf(s) == [traceID |-> s.traceID, spanID |-> s.spanID, sampled |-> s.sampled, remote |-> FALSE]

SpanK(k) == CHOOSE s \in spans : s.k = k
HasSpan(k) == \E s \in spans : s.k = k

\* unit of work a span belongs to
UnitOf(s) == s.k \div 16

\* the units the spans of poll's own SQS calls are numbered in, above
\* those of the requests and messages: poll makes these calls with
\* context.Background(), outside any message's unit of work. Unit
\* PollUnit has the ReceiveMessage calls, the n-th in slot n; unit
\* PollUnit + m has the deletion of message m
PollUnit == 8
SlotPollDelete == 2

\* the span the otelaws middleware starts for an SQS call of poll: the
\* context holds no span, so it is the root of a trace of its own
NewPollSpan(k, name) == NewSpan(k, "c", 0, name, EmptySC, 0)

\* s is a span of one of poll's own SQS calls
IsPollSpan(s) == s.k \div 16 >= PollUnit

\* span.End() of span k; err is the status set on it before (a span that
\* is not sampled does not record, and takes no status)
EndSpan(ss, k, err) ==
    {IF s.k = k /\ s.open THEN [s EXCEPT !.open = FALSE, !.err = err /\ s.sampled] ELSE s : s \in ss}

(***************************************************************************)
(* The processes.                                                          *)
(***************************************************************************)
Services == {"a", "b", "c"}
Requests == 1..MaxRequests

\* slots of the spans of one /checkout request
SlotAServer == 1
SlotAMake   == 2
SlotAClient == 3
SlotBServer == 4
SlotBPay    == 5
SlotBSend   == 6
\* slots of the spans of one queue message in service-c
SlotCProcess == 1
SlotCDynamo  == 2
SlotCS3      == 3
SlotCHttp    == 3   \* the i-th downstream request has slot SlotCHttp + i

StatusOK                  == 200
StatusInternalServerError == 500

\* the downstream URLs of makeDownstreamRequests, by the status they answer
UrlStatus == <<201, 302, 404, 418, 503>>
NumUrls   == Len(UrlStatus)

\* unit-of-work number of the m-th queue message
MsgUnit(m) == MaxRequests + m

NoReq == [pc |-> "new", wire |-> <<>>, doErr |-> FALSE, bStatus |-> 0,
          status |-> 0, writes |-> 0, body |-> <<>>]

\* trace headers a caller of /checkout may send
InboundHeaders == {<<>>, HeaderOf(ScenarioSC), HeaderOf([ScenarioSC EXCEPT !.sampled = FALSE])}

\* AWSTraceHeader attributes of messages other producers put on the queue
ForeignHeaders == {<<>>, HeaderOf(ScenarioSC)} \cup MalformedHeaders(HeaderOf(ScenarioSC))

SysInit ==
    /\ proc = [s \in Services |-> [pc |-> "init", initErr |-> FALSE, flushed |-> FALSE, served |-> 0]]
    /\ reqs = [r \in Requests |-> NoReq]
    /\ spans = {}
    /\ queue = <<>>
    /\ cons = [pc |-> "idle", recv |-> "none", calls |-> 0, empties |-> 0, msg |-> 0,
               g1 |-> 0, g2 |-> "idle", wg |-> 0, failed |-> FALSE]
    /\ faults = 0

SysIdle ==
    /\ proc = <<>> /\ reqs = <<>> /\ spans = {} /\ queue = <<>>
    /\ cons = <<>> /\ faults = 0

CanFail == faults < MaxFaults

(***************************************************************************)
(* main of each service: initialiseOpenTelemetry, getAWSConfig, then the   *)
(* HTTP server (a, b) or the poll loop (c).                                *)
(***************************************************************************)
\* an initialisation error that is only printed: main goes on
OnInitErrorLogOnly(p, next) == [p EXCEPT !.pc = next, !.initErr = TRUE]

\* log.Fatalf on an initialisation error: os.Exit(1); `next` is where main
\* would have gone on
OnInitError(p, next) == [p EXCEPT !.pc = "exited", !.initErr = TRUE]

\* log.Fatal(err) after ListenAndServe returned: os.Exit(1), which runs no
\* deferred function, so the deferred shutdown() does not run
OnServerError(p) == [p EXCEPT !.pc = "exited"]

\* main returns after poll returned: the deferred shutdown() runs
OnMainReturn(p) == [p EXCEPT !.pc = "exited", !.flushed = TRUE]

AfterTelemetry(s) == IF s = "a" THEN "serving" ELSE "config"

\* initialiseOpenTelemetry: createOLTPExporter dials the collector, blocking
\* for at most 5 seconds
InitTelemetry(s) ==
    /\ proc[s].pc = "init"
    /\ \/ /\ proc' = [proc EXCEPT ![s].pc = AfterTelemetry(s)]
          /\ UNCHANGED faults
       \/ /\ CanFail
          /\ proc' = [proc EXCEPT ![s] = OnInitError(proc[s], AfterTelemetry(s))]
          /\ faults' = faults + 1
    /\ UNCHANGED <<reqs, spans, queue, cons, propVars>>

\* poll goes to the top of its loop and calls ReceiveMessage for the n-th
\* time: the otelaws middleware starts the call's span, and poll waits for
\* the answer
StartReceive(ss, n) == ss \cup {NewPollSpan(K(PollUnit, n), "SQS.ReceiveMessage")}

\* poll's state when it calls ReceiveMessage once more
NextReceive(c) == [c EXCEPT !.pc = "receiving", !.calls = @ + 1]

\* getAWSConfig in service-b and service-c; main of service-b then serves,
\* main of service-c enters poll, which calls ReceiveMessage
LoadConfig(s) ==
    /\ proc[s].pc = "config"
    /\ \/ /\ proc' = [proc EXCEPT ![s].pc = "serving"]
          /\ spans' = IF s = "c" THEN StartReceive(spans, cons.calls + 1) ELSE spans
          /\ cons' = IF s = "c" THEN NextReceive(cons) ELSE cons
          /\ UNCHANGED faults
       \/ /\ CanFail
          /\ proc' = [proc EXCEPT ![s] = OnInitError(proc[s], "serving")]
          /\ faults' = faults + 1
          /\ UNCHANGED <<spans, cons>>
    /\ UNCHANGED <<reqs, queue, propVars>>

\* http.ListenAndServe returns its error in service-a or service-b
ServerError(s) ==
    /\ s \in {"a", "b"}
    /\ proc[s].pc = "serving"
    /\ CanFail
    /\ proc' = [proc EXCEPT ![s] = OnServerError(proc[s])]
    /\ faults' = faults + 1
    /\ UNCHANGED <<reqs, spans, queue, cons, propVars>>

(***************************************************************************)
(* service-a: checkoutHandler and makePayment.                             *)
(***************************************************************************)
\* the error makePayment returns: only an error of client.Do; the status
\* of service-b's response is not looked at
MakePaymentErr(doErr, bStatus) == doErr

\* checkoutHandler after makePayment returned: the status written and the body
CheckoutReply(q, err, traceID) ==
    IF err
    THEN [q EXCEPT !.pc = "done", !.status = StatusInternalServerError, !.writes = q.writes + 1]
    ELSE [q EXCEPT !.pc = "done", !.status = StatusOK, !.writes = q.writes + 1,
                   !.body = HexEncode(traceID)]

\* the status the otelmux middleware sets on the server span
HttpSpanErr(status) == status >= 500

\* the status the otelhttp transport sets on the client span
ClientSpanErr(status) == status >= 400

\* the client of /checkout sends its requests one after another: the next
\* one when the one before has been answered
ClientMaySend(r) == reqs[r].pc = "new" /\ \A q \in 1..(r - 1) : reqs[q].pc = "done"

\* the request reaches service-a: the otelmux middleware extracts the
\* caller's context and starts the server span; checkoutHandler calls
\* makePayment, which starts "Make Payment" and sends the request to
\* service-b through the otelhttp transport (client span, header injected)
ACheckout(r) ==
    /\ proc["a"].pc = "serving"
    /\ ClientMaySend(r)
    /\ \E h \in InboundHeaders :
         LET srv == NewSpan(K(r, SlotAServer), "a", r, "/checkout", Extract(EmptySC, h), 0)
             mk  == NewSpan(K(r, SlotAMake), "a", r, "Make Payment", SCOf(srv), srv.k)
             cl  == NewSpan(K(r, SlotAClient), "a", r, "HTTP POST", SCOf(mk), mk.k)
         IN  /\ spans' = spans \cup {srv, mk, cl}
             /\ reqs' = [reqs EXCEPT ![r].pc = "a_wait", ![r].wire = Inject(SCOf(cl), <<>>)]
    /\ proc' = [proc EXCEPT !["a"].served = @ + 1]
    /\ UNCHANGED <<queue, cons, faults, propVars>>

\* the spans of service-a for request r when makePayment returns: the
\* client span carries the transport's status, "Make Payment" is ended by
\* its deferred End() with no status set
MakePaymentReturn(ss, r, clientErr) ==
    EndSpan(EndSpan(ss, K(r, SlotAClient), clientErr), K(r, SlotAMake), FALSE)

\* client.Do fails: service-b is not listening, or the connection fails;
\* makePayment returns the error
ADoError(r) ==
    /\ proc["a"].pc = "serving"
    /\ \/ /\ reqs[r].pc = "a_wait"
          /\ proc["b"].pc # "serving"
          /\ UNCHANGED faults
       \/ /\ reqs[r].pc \in {"b_pay", "b_paid", "b_send"}
          /\ proc["b"].pc = "exited"
          /\ UNCHANGED faults
       \/ /\ reqs[r].pc = "a_wait"
          /\ CanFail
          /\ faults' = faults + 1
    /\ reqs' = [reqs EXCEPT ![r].pc = "a_reply", ![r].doErr = TRUE]
    /\ spans' = MakePaymentReturn(spans, r, TRUE)
    /\ UNCHANGED <<proc, queue, cons, propVars>>

\* client.Do returns service-b's response, whatever its status;
\* makePayment returns nil
AResponse(r) ==
    /\ proc["a"].pc = "serving"
    /\ reqs[r].pc = "a_resp"
    /\ reqs' = [reqs EXCEPT ![r].pc = "a_reply"]
    /\ spans' = MakePaymentReturn(spans, r, ClientSpanErr(reqs[r].bStatus))
    /\ UNCHANGED <<proc, queue, cons, faults, propVars>>

\* checkoutHandler after makePayment returned: it writes the status (and
\* the body); the otelmux middleware then ends the server span with the
\* status written
AReply(r) ==
    /\ proc["a"].pc = "serving"
    /\ reqs[r].pc = "a_reply"
    /\ LET rep == CheckoutReply(reqs[r], MakePaymentErr(reqs[r].doErr, reqs[r].bStatus),
                                SpanK(K(r, SlotAServer)).traceID)
       IN  /\ reqs' = [reqs EXCEPT ![r] = rep]
           /\ spans' = EndSpan(spans, K(r, SlotAServer), HttpSpanErr(rep.status))
    /\ UNCHANGED <<proc, queue, cons, faults, propVars>>

(***************************************************************************)
(* service-b: paymentHandler and takePayment.                              *)
(***************************************************************************)
\* ctx is the span context processMessage extracted from the message,
\* once it has been received
NewMessage(r, hdr, from) ==
    [req |-> r, hdr |-> hdr, from |-> from, st |-> "visible", ctx |-> EmptySC,
     processed |-> "no", deleteIssued |-> FALSE]

\* the request reaches service-b: the otelmux middleware extracts the
\* context from the request's header and starts the server span;
\* paymentHandler calls takePayment, which starts "Process Payment" and sleeps
BPayment(r) ==
    /\ proc["b"].pc = "serving"
    /\ reqs[r].pc = "a_wait"
    /\ LET srv == NewSpan(K(r, SlotBServer), "b", r, "/payment",
                          Extract(EmptySC, reqs[r].wire), K(r, SlotAClient))
           pay == NewSpan(K(r, SlotBPay), "b", r, "Process Payment", SCOf(srv), srv.k)
       IN  spans' = spans \cup {srv, pay}
    /\ reqs' = [reqs EXCEPT ![r].pc = "b_pay"]
    /\ proc' = [proc EXCEPT !["b"].served = @ + 1]
    /\ UNCHANGED <<queue, cons, faults, propVars>>

\* takePayment returns: its deferred End() ends "Process Payment"
BTakePaymentReturn(r) ==
    /\ proc["b"].pc = "serving"
    /\ reqs[r].pc = "b_pay"
    /\ spans' = EndSpan(spans, K(r, SlotBPay), FALSE)
    /\ reqs' = [reqs EXCEPT ![r].pc = "b_paid"]
    /\ UNCHANGED <<proc, queue, cons, faults, propVars>>

\* paymentHandler calls SendMessage with r.Context(): the otelaws
\* middleware starts the SQS span under the server span
BSendMessage(r) ==
    /\ proc["b"].pc = "serving"
    /\ reqs[r].pc = "b_paid"
    /\ LET sq == NewSpan(K(r, SlotBSend), "b", r, "SQS.SendMessage",
                         SCOf(SpanK(K(r, SlotBServer))), K(r, SlotBServer))
       IN  spans' = spans \cup {sq}
    /\ reqs' = [reqs EXCEPT ![r].pc = "b_send"]
    /\ UNCHANGED <<proc, queue, cons, faults, propVars>>

\* the status paymentHandler writes after SendMessage returned
PaymentStatus(sendErr) == IF sendErr THEN StatusInternalServerError ELSE StatusOK

\* SendMessage returns: on success the message is on the queue, carrying
\* the trace header injected from the SQS span; paymentHandler writes its
\* status and the middleware ends the server span
BSendReturn(r) ==
    /\ proc["b"].pc = "serving"
    /\ reqs[r].pc = "b_send"
    /\ \E sendErr \in BOOLEAN :
         /\ sendErr => CanFail
         /\ faults' = IF sendErr THEN faults + 1 ELSE faults
         /\ queue' = IF sendErr THEN queue
                     ELSE Append(queue, NewMessage(r, Inject(SCOf(SpanK(K(r, SlotBSend))), <<>>),
                                                   K(r, SlotBSend)))
         /\ reqs' = [reqs EXCEPT ![r].pc = "a_resp", ![r].bStatus = PaymentStatus(sendErr)]
         /\ spans' = EndSpan(EndSpan(spans, K(r, SlotBSend), sendErr),
                             K(r, SlotBServer), HttpSpanErr(PaymentStatus(sendErr)))
    /\ UNCHANGED <<proc, cons, propVars>>

(***************************************************************************)
(* service-c: poll, processMessage and the two goroutines.                 *)
(***************************************************************************)
Messages == 1..Len(queue)

\* another producer puts a message on the queue
ForeignSend ==
    /\ Cardinality({m \in Messages : queue[m].req = 0}) < MaxForeign
    /\ \E h \in ForeignHeaders : queue' = Append(queue, NewMessage(0, h, 0))
    /\ UNCHANGED <<proc, reqs, spans, cons, faults, propVars>>

\* propagateTraceFromSQSMessage: the span context of the returned context
\* (poll's context is context.Background(), which holds no span)
PropagateTraceFromSQSMessage(msg) == Extract(EmptySC, msg.hdr)

\* trace headers of the messages sent to service-c by instrumented and
\* uninstrumented producers: absent, sampled, not sampled
WorkHeaders == {<<>>, HeaderOf(ScenarioSC), HeaderOf([ScenarioSC EXCEPT !.sampled = FALSE])}

\* a producer puts a message with a well-formed or absent trace header on
\* the queue
WorkSend ==
    /\ Len(queue) < MaxForeign
    /\ \E h \in WorkHeaders : queue' = Append(queue, NewMessage(0, h, 0))
    /\ UNCHANGED <<proc, reqs, spans, cons, faults, propVars>>

\* a producer puts a message on the queue, with or without a trace header
ProducerSend ==
    /\ Len(queue) < MaxPolled
    /\ \E h \in {<<>>, HeaderOf(ScenarioSC)} : queue' = Append(queue, NewMessage(0, h, 0))
    /\ UNCHANGED <<proc, reqs, spans, cons, faults, propVars>>

\* a poll loop that prints the receive error and goes round again
PollAfterReceiveErrorContinue == "receiving"

\* where poll is after ReceiveMessage returned an error: it has returned
PollAfterReceiveError == "returned"

\* the spans after the ReceiveMessage call in flight has returned: its
\* otelaws span ends, with the error status when the call failed
ReceiveReturn(ss, n, err) == EndSpan(ss, K(PollUnit, n), err)

\* ReceiveMessage returns an error: poll returns
CReceiveError ==
    /\ proc["c"].pc = "serving"
    /\ cons.pc = "receiving"
    /\ CanFail
    /\ faults' = faults + 1
    /\ spans' = ReceiveReturn(spans, cons.calls, TRUE)
    /\ cons' = [cons EXCEPT !.recv = "error", !.pc = PollAfterReceiveError]
    /\ UNCHANGED <<proc, reqs, queue, propVars>>

\* poll has returned: main returns and its deferred shutdown() runs
CMainReturn ==
    /\ proc["c"].pc = "serving"
    /\ cons.pc = "returned"
    /\ proc' = [proc EXCEPT !["c"] = OnMainReturn(proc["c"])]
    /\ UNCHANGED <<reqs, spans, queue, cons, faults, propVars>>

\* ReceiveMessage returns no message, whatever is on the queue: continue,
\* and ReceiveMessage is called again
CReceiveEmpty ==
    /\ proc["c"].pc = "serving"
    /\ cons.pc = "receiving"
    /\ cons.empties < MaxEmpty
    /\ spans' = StartReceive(ReceiveReturn(spans, cons.calls, FALSE), cons.calls + 1)
    /\ cons' = NextReceive([cons EXCEPT !.recv = "empty", !.empties = @ + 1])
    /\ UNCHANGED <<proc, reqs, queue, faults, propVars>>

\* ReceiveMessage returns message m (its otelaws span ends):
\* processMessage extracts the context,
\* starts "Process Message" and calls PutItem (otelaws span under it)
CReceiveMessage(m) ==
    /\ proc["c"].pc = "serving"
    /\ cons.pc = "receiving"
    /\ queue[m].st = "visible"
    /\ LET u   == MsgUnit(m)
           ctx == PropagateTraceFromSQSMessage(queue[m])
           pm  == NewSpan(K(u, SlotCProcess), "c", queue[m].req, "Process Message",
                          ctx, queue[m].from)
           dy  == NewSpan(K(u, SlotCDynamo), "c", queue[m].req, "DynamoDB.PutItem",
                          SCOf(pm), pm.k)
       IN  /\ queue' = [queue EXCEPT ![m].st = "inflight", ![m].ctx = ctx]
           /\ spans' = ReceiveReturn(spans, cons.calls, FALSE) \cup {pm, dy}
    /\ cons' = [cons EXCEPT !.pc = "dynamo", !.recv = "message", !.msg = m, !.failed = FALSE]
    /\ proc' = [proc EXCEPT !["c"].served = @ + 1]
    /\ UNCHANGED <<reqs, faults, propVars>>

\* wg.Add(2)
FanOut == 2

\* writeToDynamoDB returns (an error is printed); the two goroutines are launched
CDynamoReturn ==
    /\ cons.pc = "dynamo"
    /\ \E err \in BOOLEAN :
         /\ err => CanFail
         /\ faults' = IF err THEN faults + 1 ELSE faults
         /\ spans' = EndSpan(spans, K(MsgUnit(cons.msg), SlotCDynamo), err)
         /\ cons' = [cons EXCEPT !.pc = "fanout", !.failed = err, !.wg = FanOut, !.g1 = 0, !.g2 = "start"]
    /\ UNCHANGED <<proc, reqs, queue, propVars>>

\* a context shared by the goroutines instead of passed to each: the span
\* in it is whichever span of the message was started last and is open
GoroutineCtxShared(ss, m) ==
    LET open == {s \in ss : s.k \div 16 = MsgUnit(m) /\ s.open}
    IN  CHOOSE s \in open : \A t \in open : t.k <= s.k

\* the span in the ctx a goroutine of processMessage is given as its
\* argument: the ctx Start returned for "Process Message"; a context is
\* immutable, what the other goroutine starts does not change it
GoroutineCtx(ss, m) == CHOOSE s \in ss : s.k = K(MsgUnit(m), SlotCProcess)

\* position of goroutine 1 when its loop over the URLs is over
G1Done == 2 * NumUrls

\* makeDownstreamRequests returning at the first error instead of continuing
G1NextFailFast(g1, err) == IF err THEN G1Done ELSE g1 + 1

\* makeDownstreamRequests after httpClient.Do returned at position g1: an
\* error is printed and the loop continues with the next URL
G1Next(g1, err) == g1 + 1

\* makeDownstreamRequests: httpClient.Do for the next URL (otelhttp client span)
G1Send ==
    /\ cons.pc = "fanout"
    /\ cons.g1 < G1Done
    /\ cons.g1 % 2 = 0
    /\ LET i  == (cons.g1 \div 2) + 1
           pm == GoroutineCtx(spans, cons.msg)
       IN  spans' = spans \cup {NewSpan(K(MsgUnit(cons.msg), SlotCHttp + i), "c", pm.req,
                                        "HTTP GET", SCOf(pm), pm.k)}
    /\ cons' = [cons EXCEPT !.g1 = @ + 1]
    /\ UNCHANGED <<proc, reqs, queue, faults, propVars>>

\* makeDownstreamRequests: httpClient.Do returns; after the last URL the
\* goroutine's deferred wg.Done() runs
G1Return ==
    /\ cons.pc = "fanout"
    /\ cons.g1 < G1Done
    /\ cons.g1 % 2 = 1
    /\ \E err \in BOOLEAN :
         LET i    == (cons.g1 \div 2) + 1
             next == G1Next(cons.g1, err)
         IN  /\ err => CanFail
             /\ faults' = IF err THEN faults + 1 ELSE faults
             /\ spans' = EndSpan(spans, K(MsgUnit(cons.msg), SlotCHttp + i),
                                 err \/ ClientSpanErr(UrlStatus[i]))
             /\ cons' = [cons EXCEPT !.g1 = next, !.failed = @ \/ err,
                                     !.wg = IF next >= G1Done THEN @ - 1 ELSE @]
    /\ UNCHANGED <<proc, reqs, queue, propVars>>

\* writeToS3Bucket: PutObject is called (otelaws span)
G2Put ==
    /\ cons.pc = "fanout"
    /\ cons.g2 = "start"
    /\ LET pm == GoroutineCtx(spans, cons.msg)
       IN  spans' = spans \cup {NewSpan(K(MsgUnit(cons.msg), SlotCS3), "c", pm.req,
                                        "S3.PutObject", SCOf(pm), pm.k)}
    /\ cons' = [cons EXCEPT !.g2 = "put"]
    /\ UNCHANGED <<proc, reqs, queue, faults, propVars>>

\* writeToS3Bucket: PutObject returns (an error is printed); the
\* goroutine's deferred wg.Done() runs
G2Return ==
    /\ cons.pc = "fanout"
    /\ cons.g2 = "put"
    /\ \E err \in BOOLEAN :
         /\ err => CanFail
         /\ faults' = IF err THEN faults + 1 ELSE faults
         /\ spans' = EndSpan(spans, K(MsgUnit(cons.msg), SlotCS3), err)
         /\ cons' = [cons EXCEPT !.g2 = "done", !.failed = @ \/ err, !.wg = @ - 1]
    /\ UNCHANGED <<proc, reqs, queue, propVars>>

\* a wait that returns as soon as one goroutine is done
WaitReturnsEarly(wg) == wg <= 1

\* wg.Wait() returns
WaitReturns(wg) == wg = 0

\* whether poll issues DeleteMessage after processMessage returned:
\* processMessage returns nothing, poll deletes whatever happened
DeletesAfter(failed) == TRUE

\* the spans when processMessage returns for message m: no deferred End()
ProcessMessageReturnSpanOpen(ss, m) == ss

\* the spans when processMessage returns for message m: the deferred
\* span.End() ends "Process Message"
ProcessMessageReturn(ss, m) == EndSpan(ss, K(MsgUnit(m), SlotCProcess), FALSE)

\* wg.Wait() returns; the deferred span.End() ends "Process Message" and
\* processMessage returns to poll
CJoin ==
    /\ cons.pc = "fanout"
    /\ WaitReturns(cons.wg)
    /\ spans' = ProcessMessageReturn(spans, cons.msg)
    /\ queue' = [queue EXCEPT ![cons.msg].processed = IF cons.failed THEN "failed" ELSE "ok"]
    /\ cons' = [cons EXCEPT !.pc = "processed"]
    /\ UNCHANGED <<proc, reqs, faults, propVars>>

\* poll after processMessage returned: DeleteMessage is called, the
\* otelaws middleware starts the call's span
CDelete ==
    /\ cons.pc = "processed"
    /\ queue' = [queue EXCEPT ![cons.msg].deleteIssued = DeletesAfter(cons.failed)]
    /\ spans' = IF DeletesAfter(cons.failed)
                THEN spans \cup {NewPollSpan(K(PollUnit + cons.msg, SlotPollDelete),
                                             "SQS.DeleteMessage")}
                ELSE StartReceive(spans, cons.calls + 1)
    /\ cons' = IF DeletesAfter(cons.failed) THEN [cons EXCEPT !.pc = "delete"]
               ELSE NextReceive(cons)
    /\ UNCHANGED <<proc, reqs, faults, propVars>>

\* DeleteMessage returns: its span ends, with the error status when the
\* call failed; its result is not looked at, and poll calls ReceiveMessage
\* again
CDeleteReturn ==
    /\ cons.pc = "delete"
    /\ \E err \in BOOLEAN :
         /\ err => CanFail
         /\ faults' = IF err THEN faults + 1 ELSE faults
         /\ queue' = [queue EXCEPT ![cons.msg].st = IF err THEN "inflight" ELSE "deleted"]
         /\ spans' = StartReceive(EndSpan(spans, K(PollUnit + cons.msg, SlotPollDelete), err),
                                  cons.calls + 1)
    /\ cons' = NextReceive(cons)
    /\ UNCHANGED <<proc, reqs, propVars>>

(***************************************************************************)
(* The specifications.                                                     *)
(***************************************************************************)
Init == SysInit /\ PropIdle

\* the three services and a client of /checkout
Next ==
    \/ \E s \in Services : InitTelemetry(s)
    \/ \E s \in {"b", "c"} : LoadConfig(s)
    \/ \E s \in {"a", "b"} : ServerError(s)
    \/ \E r \in Requests : ACheckout(r)
    \/ \E r \in Requests : ADoError(r)
    \/ \E r \in Requests : AResponse(r)
    \/ \E r \in Requests : AReply(r)
    \/ \E r \in Requests : BPayment(r)
    \/ \E r \in Requests : BTakePaymentReturn(r)
    \/ \E r \in Requests : BSendMessage(r)
    \/ \E r \in Requests : BSendReturn(r)
    \/ CReceiveError
    \/ CMainReturn
    \/ CReceiveEmpty
    \/ \E m \in Messages : CReceiveMessage(m)
    \/ CDynamoReturn
    \/ G1Send
    \/ G1Return
    \/ G2Put
    \/ G2Return
    \/ CJoin
    \/ CDelete
    \/ CDeleteReturn

Spec == Init /\ [][Next]_vars

\* service-c on its own, fed by other producers with every kind of trace
\* header
NextC ==
    \/ InitTelemetry("c")
    \/ LoadConfig("c")
    \/ ForeignSend
    \/ CReceiveError
    \/ CMainReturn
    \/ CReceiveEmpty
    \/ \E m \in Messages : CReceiveMessage(m)
    \/ CDynamoReturn
    \/ G1Send
    \/ G1Return
    \/ G2Put
    \/ G2Return
    \/ CJoin
    \/ CDelete
    \/ CDeleteReturn

SpecC == Init /\ [][NextC]_vars

\* service-c on its own, processing messages with well-formed or absent
\* trace headers
NextWork ==
    \/ InitTelemetry("c")
    \/ LoadConfig("c")
    \/ WorkSend
    \/ CReceiveError
    \/ CMainReturn
    \/ CReceiveEmpty
    \/ \E m \in Messages : CReceiveMessage(m)
    \/ CDynamoReturn
    \/ G1Send
    \/ G1Return
    \/ G2Put
    \/ G2Return
    \/ CJoin
    \/ CDelete
    \/ CDeleteReturn

SpecWork == Init /\ [][NextWork]_vars

\* service-c's poll loop with several messages on the queue
NextPoll ==
    \/ InitTelemetry("c")
    \/ LoadConfig("c")
    \/ ProducerSend
    \/ CReceiveError
    \/ CMainReturn
    \/ CReceiveEmpty
    \/ \E m \in Messages : CReceiveMessage(m)
    \/ CDynamoReturn
    \/ G1Send
    \/ G1Return
    \/ G2Put
    \/ G2Return
    \/ CJoin
    \/ CDelete
    \/ CDeleteReturn

SpecPoll == Init /\ [][NextPoll]_vars

\* the propagator on its own
PropInitAll == SysIdle /\ PropInit

PropNext == (PInject \/ PMutilate \/ PExtract) /\ UNCHANGED sysVars

PropSpec == PropInitAll /\ [][PropNext]_vars

(***************************************************************************)
(* Properties.                                                             *)
(***************************************************************************)
TheHeader == HeaderOf(ScenarioSC)
TheMalformedHeaders == {<<>>} \cup MalformedHeaders(TheHeader)

\* slots of the spans processMessage starts under "Process Message"
WorkSlots == {SlotCDynamo, SlotCS3} \cup {SlotCHttp + i : i \in 1..NumUrls}

\* all business work of message m has run: every outbound call was made
\* and has returned
AllWorkRan(m) ==
    LET ended == {s.k : s \in {t \in spans : UnitOf(t) = MsgUnit(m) /\ ~t.open}}
    IN  \A slot \in WorkSlots : K(MsgUnit(m), slot) \in ended

\* C1: a received message is deleted only after its processing succeeded:
\* DeleteMessage is not issued for a message any part of whose business
\* work (DynamoDB put, downstream request, S3 put) failed.
C1_DeleteOnlyAfterSuccess ==
    \A m \in Messages : queue[m].deleteIssued => queue[m].processed = "ok"

\* C2: join-before-close: once "Process Message" has ended, both
\* goroutines are done and every span started for the message has ended,
\* in every interleaving of the two goroutines.
C2_JoinBeforeClose ==
    \A p \in spans :
        (p.svc = "c" /\ p.name = "Process Message" /\ ~p.open) =>
            /\ \A s \in spans : UnitOf(s) = UnitOf(p) => ~s.open
            /\ UnitOf(p) = MsgUnit(cons.msg) =>
                   /\ cons.pc \in {"processed", "delete", "receiving", "returned"}
                   /\ cons.g1 = G1Done
                   /\ cons.g2 = "done"

\* C2's case: "Process Message" has ended with all seven spans under it ended
C2_Witness ==
    \E p \in spans :
        /\ p.svc = "c" /\ p.name = "Process Message" /\ ~p.open
        /\ Cardinality({s \in spans : s.from = p.k /\ ~s.open}) = NumUrls + 2

\* C3: no fail-fast fan-out: while the fan-out runs, the wait group counts
\* exactly the goroutines that are not done and each of them can take its
\* next step whatever failed before; when the join has returned every
\* outbound call of both goroutines has been made and has returned.
C3_NoFailFast ==
    /\ cons.pc = "fanout" =>
          /\ cons.wg = (IF cons.g1 < G1Done THEN 1 ELSE 0) + (IF cons.g2 # "done" THEN 1 ELSE 0)
          /\ cons.g1 < G1Done => ENABLED (G1Send \/ G1Return)
          /\ cons.g2 # "done" => ENABLED (G2Put \/ G2Return)
          /\ cons.wg = 0 => ENABLED CJoin
    /\ \A m \in Messages : queue[m].processed # "no" => AllWorkRan(m)

\* C3's case: the S3 put failed and all five downstream requests were
\* still made, and the join returned
C3_Witness ==
    \E m \in Messages :
        /\ queue[m].processed = "failed"
        /\ SpanK(K(MsgUnit(m), SlotCS3)).err
        /\ AllWorkRan(m)

\* the synchronous chain of request r failed: service-b could not be
\* reached, or service-b answered 500
ChainFailed(r) == reqs[r].doErr \/ reqs[r].bStatus = StatusInternalServerError

\* C4: a caller of /checkout gets 500 whenever a step of the chain failed
\* (service-b unreachable, or service-b answering 500), and 200 with the
\* trace id in the body only when the chain succeeded; one status is
\* written per request.
C4_StatusFollowsChain ==
    \A r \in Requests :
        reqs[r].pc = "done" =>
            /\ reqs[r].writes = 1
            /\ ChainFailed(r) => reqs[r].status = StatusInternalServerError
            /\ ~ChainFailed(r) =>
                   /\ reqs[r].status = StatusOK
                   /\ reqs[r].body = HexEncode(SpanK(K(r, SlotAServer)).traceID)

\* C5: when makePayment's request to service-b fails, the span current in
\* makePayment ("Make Payment") is ended carrying an error indication, the
\* caller gets the failure (500), and service-a goes on serving.
C5_FailedCallMarksSpan ==
    \A r \in Requests :
        (reqs[r].doErr /\ reqs[r].pc = "done") =>
            /\ reqs[r].status = StatusInternalServerError
            /\ ~SpanK(K(r, SlotAMake)).open
            /\ SpanK(K(r, SlotAMake)).sampled => SpanK(K(r, SlotAMake)).err

\* C6: trace continuity: every span started from a passed or extracted
\* context has that span's trace id, has its span id as parent id, and a
\* span id of its own; all spans of one checkout request, in service-a,
\* service-b and service-c, have one trace id.
C6_TraceContinuity ==
    \A s \in spans :
        /\ s.from # 0 =>
              \E p \in spans :
                  /\ p.k = s.from
                  /\ s.traceID = p.traceID
                  /\ s.parentID = p.spanID
                  /\ s.spanID # p.spanID
        /\ s.req # 0 => s.traceID = SpanK(K(s.req, SlotAServer)).traceID

\* C6's case: a downstream request of service-c, made for the message of
\* request 1, has ended in the trace of service-a's server span
C6_Witness ==
    \E s \in spans :
        /\ s.svc = "c" /\ s.name = "HTTP GET" /\ ~s.open /\ s.req = 1
        /\ s.traceID = SpanK(K(1, SlotAServer)).traceID
        /\ SpanK(s.from).from = K(1, SlotBSend)

\* the span processMessage opened for message m is the root of a new trace
NewRoot(m) ==
    LET pm == SpanK(K(MsgUnit(m), SlotCProcess))
    IN  /\ pm.parentID = Zeros(SpanIDLen)
        /\ pm.traceID = NewTraceID(pm.k)
        /\ pm.sampled

\* C7: for a message without trace header, or with one that is malformed
\* (truncated hex, wrong segment count), extraction yields no span context
\* and processMessage opens a new root trace and runs all work.
C7_MalformedNewRoot ==
    \A m \in Messages :
        (queue[m].st # "visible" /\ queue[m].hdr \in TheMalformedHeaders) =>
            /\ ~IsValidSC(queue[m].ctx)
            /\ NewRoot(m)
            /\ queue[m].processed # "no" => AllWorkRan(m)

\* C8: round trip: extracting from the carrier produced by injecting a
\* valid span context into an empty carrier gives back its trace id, span
\* id and sampled flag.
C8_RoundTrip ==
    pPc = "extracted" =>
        /\ pOut.traceID = pIn.traceID
        /\ pOut.spanID = pIn.spanID
        /\ pOut.sampled = pIn.sampled

\* C8's case: a span context that is not sampled has made the round trip
C8_Witness == pPc = "extracted" /\ IsValidSC(pIn) /\ ~pIn.sampled /\ IsValidSC(pOut)

\* C9: on every path by which main stops after start-up (ListenAndServe
\* returning an error in a and b, poll returning in c) the shutdown
\* function has run before the process exits.
C9_ShutdownRunsAtExit ==
    \A s \in Services :
        (proc[s].pc = "exited" /\ ~proc[s].initErr) => proc[s].flushed

\* C10: an initialisation error (exporter not reached within the timeout,
\* configuration not loaded) is fatal before any work is served: the
\* process has exited and has handled no request and received no message.
C10_InitErrorFatal ==
    \A s \in Services :
        proc[s].initErr => proc[s].pc = "exited" /\ proc[s].served = 0

\* C10's case: service-c failed to initialise while a message for it is
\* waiting on the queue
C10_Witness ==
    /\ proc["c"].initErr
    /\ \E m \in Messages : queue[m].st = "visible"

\* span k has been started and has ended
Ended(k) == HasSpan(k) /\ ~SpanK(k).open

\* C11: the span a handler opened is closed before the reply or the
\* acknowledgment is issued: in service-a "Make Payment" has ended when
\* the reply is about to be written and whenever a status has been
\* written; in service-b "Process Payment" has ended whenever the queue
\* send has been issued or the status written; in service-c "Process
\* Message" has ended when DeleteMessage is about to be issued and
\* whenever it has been issued.
C11_SpanClosedBeforeReply ==
    /\ \A r \in Requests :
          /\ (reqs[r].pc = "a_reply" \/ reqs[r].writes > 0) => Ended(K(r, SlotAMake))
          /\ (HasSpan(K(r, SlotBSend)) \/ reqs[r].bStatus # 0) => Ended(K(r, SlotBPay))
    /\ \A m \in Messages :
          /\ queue[m].deleteIssued => Ended(K(MsgUnit(m), SlotCProcess))
          /\ (cons.pc = "processed" /\ cons.msg = m) => Ended(K(MsgUnit(m), SlotCProcess))

\* C11's case: a checkout request has been answered, its message has been
\* sent by service-b, processed by service-c and its deletion issued
C11_Witness ==
    \E m \in Messages :
        /\ queue[m].req # 0
        /\ queue[m].deleteIssued
        /\ reqs[queue[m].req].writes = 1
        /\ reqs[queue[m].req].bStatus = StatusOK

\* slots of the spans each sub-operation of the fan-out starts
HttpSlots == {SlotCHttp + i : i \in 1..NumUrls}
S3Slots   == {SlotCS3}

\* spans of unit u started in the given slots
SpansIn(u, slots) == {s \in spans : UnitOf(s) = u /\ (s.k % 16) \in slots}

\* C12: sibling isolation: every span a sub-operation of processMessage's
\* fan-out starts is a child of the message's "Process Message" span, in
\* its trace, and none has a span started by the other sub-operation as
\* its parent, whatever the interleaving of the two.
C12_SiblingIsolation ==
    \A m \in Messages :
        LET u == MsgUnit(m)
        IN  /\ \A s \in SpansIn(u, HttpSlots \cup S3Slots) :
                  /\ s.from = K(u, SlotCProcess)
                  /\ s.parentID = SpanK(K(u, SlotCProcess)).spanID
                  /\ s.traceID = SpanK(K(u, SlotCProcess)).traceID
            /\ \A s \in SpansIn(u, HttpSlots) : \A t \in SpansIn(u, S3Slots) :
                  s.parentID # t.spanID /\ t.parentID # s.spanID

\* C12's case: a downstream request and the S3 put are in flight at the
\* same time, the second of the five requests having been started after
\* the S3 put
C12_Witness ==
    \E m \in Messages :
        /\ \E s \in SpansIn(MsgUnit(m), S3Slots) : s.open
        /\ \E s \in SpansIn(MsgUnit(m), HttpSlots) : s.open /\ s.k = K(MsgUnit(m), SlotCHttp + 2)

\* messages poll has received
Received == {m \in Messages : queue[m].st # "visible"}

\* spans of service-c that have not ended
OpenInC == {s \in spans : s.svc = "c" /\ s.open}

\* spans of service-c started for the processing of a message
WorkSpans(ss) == {s \in ss : s.svc = "c" /\ ~IsPollSpan(s)}

\* the span of the ReceiveMessage call poll is waiting in
ReceiveInFlight == {s \in spans : s.k = K(PollUnit, cons.calls) /\ s.open}

\* what holds in every state of the poll loop: at most one received
\* message is not processed to the end, it is the one in hand; the spans
\* that are open are its spans or, once it has been processed, the span
\* of its DeleteMessage call; while poll waits in ReceiveMessage nothing
\* is in hand and the only open span is the one of that call
PollOneInHand ==
    /\ Cardinality({m \in Received : queue[m].processed = "no"}) <= 1
    /\ \A m \in Received : queue[m].processed = "no" =>
           (cons.msg = m /\ cons.pc \in {"dynamo", "fanout"})
    /\ \A s \in OpenInC :
           \/ UnitOf(s) = MsgUnit(cons.msg) /\ cons.pc \in {"dynamo", "fanout"}
           \/ IsPollSpan(s) /\ s.name = "SQS.DeleteMessage" /\ cons.pc = "delete"
           \/ s \in ReceiveInFlight /\ cons.pc = "receiving"
    /\ cons.pc = "receiving" => Cardinality(ReceiveInFlight) = 1
    /\ cons.pc \in {"receiving", "returned"} =>
           \A m \in Received : queue[m].processed # "no" /\ queue[m].deleteIssued
    /\ cons.recv = "empty" => cons.pc = "receiving"
    /\ cons.recv = "error" => cons.pc = "returned"

\* what holds of every step of the poll loop: a receive that returns no
\* message leaves every message as it is and starts no span but the one
\* of the next ReceiveMessage call, no processing and no DeleteMessage;
\* ReceiveMessage is called, and a message is received, only with every
\* message received before processed to the end and its deletion issued;
\* after a receive error nothing is received, processed or deleted any
\* more
PollStep ==
    /\ cons'.empties # cons.empties =>
           /\ \A m \in Messages : queue'[m] = queue[m]
           /\ WorkSpans(spans') = WorkSpans(spans)
           /\ \A s \in spans' \ spans : s.name = "SQS.ReceiveMessage"
    /\ cons'.calls # cons.calls =>
           /\ cons'.calls = cons.calls + 1
           /\ \A m \in Messages : queue'[m].st # "visible" =>
                  (queue'[m].processed # "no" /\ queue'[m].deleteIssued)
           /\ \A s \in spans' : (s.svc = "c" /\ s.open) => s.k = K(PollUnit, cons'.calls)
    /\ \A m \in Messages :
           (queue[m].st = "visible" /\ queue'[m].st # "visible") =>
               /\ cons.pc = "receiving" /\ cons.recv # "error"
               /\ OpenInC = ReceiveInFlight
               /\ \A n \in Received : queue[n].processed # "no" /\ queue[n].deleteIssued
    /\ cons.recv = "error" =>
           (cons' = cons /\ spans' = spans /\ \A m \in Messages : queue'[m] = queue[m])

\* C13: service-c's poll loop handles messages one at a time and stops on
\* a receive error: an empty receive triggers neither processing nor
\* deletion, processMessage runs to completion before the next
\* ReceiveMessage, and once ReceiveMessage has returned an error poll has
\* returned and no message is received any more.
C13_PollOneAtATime == []PollOneInHand /\ [][PollStep]_vars

\* C13's case: a receive returned no message, two messages have been
\* received and handled one after the other, then a receive failed and
\* poll returned
C13_Witness ==
    /\ cons.recv = "error"
    /\ cons.empties > 0
    /\ Cardinality(Received) = 2
    /\ \A m \in Received : queue[m].deleteIssued

====
